---- MODULE Spec2Model ----
(***************************************************************************)
(* Supply-chain dependency map: data_utils.py (edge builder, graph         *)
(* constructor, dependency traversal, role classifier, impact metrics).    *)
(*                                                                         *)
(* A graph is [nodes |-> set of ids, arcs |-> sequence of arcs]; an arc is *)
(* a record with fields u, v and the attributes networkx stores with it    *)
(* (weight, type, active), any of which may be absent.  A table is a       *)
(* sequence of row records.  Python's None is the value None.              *)
(***************************************************************************)
EXTENDS Integers, Sequences, FiniteSets, TLC

VARIABLES
    nodes,        \* the NODES table: sequence of rows [id, region]
    matrix,       \* the MATRIX table: [columns, rows], a row is [FROM_TO, cells]
    edges,        \* the edge list: sequence of edge rows
    G,            \* the graph handed to / returned by the functions
    focus_node,   \* argument of the last analysis call
    max_depth,    \* argument of the last analysis call
    dep,          \* result of compute_dependency_subgraph
    impact,       \* result of compute_impact_metrics
    cls,          \* arguments of the last classify_nodes call
    roles,        \* result of classify_nodes
    pc            \* position in the script

vars == <<nodes, matrix, edges, G, focus_node, max_depth, dep, impact, cls, roles, pc>>

None == "None"

----------------------------------------------------------------------------
(* Bounds of the model *)

MaxArcs == 3      \* arcs of an input graph
MaxDepth == 2     \* largest max_depth tried
MaxRows == 2      \* rows of an input matrix

----------------------------------------------------------------------------
(* Small helpers on sequences and sets *)

Range(s) == {s[i] : i \in 1..Len(s)}

Count(s, x) == Cardinality({i \in 1..Len(s) : s[i] = x})

----------------------------------------------------------------------------
(* Graph primitives (networkx MultiDiGraph as used by data_utils.py) *)

EmptyGraph == [nodes |-> {}, arcs |-> <<>>]

\* n in graph
InGraph(g, n) == n \in g.nodes

\* graph.predecessors(n)
Predecessors(g, n) == {g.arcs[i].u : i \in {j \in 1..Len(g.arcs) : g.arcs[j].v = n}}

\* graph.successors(n)
Successors(g, n) == {g.arcs[i].v : i \in {j \in 1..Len(g.arcs) : g.arcs[j].u = n}}

\* a subgraph that keeps every arc touching S
InducedSubgraphTouching(g, S) ==
    [nodes |-> g.nodes \cap S,
     arcs |-> SelectSeq(g.arcs, LAMBDA a : a.u \in S \/ a.v \in S)]

\* graph.subgraph(S).copy(): the nodes of g in S and every arc of g between them
InducedSubgraph(g, S) ==
    [nodes |-> g.nodes \cap S,
     arcs |-> SelectSeq(g.arcs, LAMBDA a : a.u \in S /\ a.v \in S)]

----------------------------------------------------------------------------
(* compute_dependency_subgraph *)

\* a traversal whose frontier never advances
UpstreamNoAdvance(g, current, upstream, k) ==
    IF k <= 0 THEN upstream
    ELSE upstream \cup UNION {Predecessors(g, n) : n \in current}

\* for _ in range(max_depth): parents = U predecessors(current); upstream |= parents
RECURSIVE UpstreamTraversal(_, _, _, _)
UpstreamTraversal(g, current, upstream, k) ==
    IF k <= 0 THEN upstream
    ELSE LET parents == UNION {Predecessors(g, n) : n \in current}
         IN UpstreamTraversal(g, parents, upstream \cup parents, k - 1)

\* for _ in range(max_depth): children = U successors(current); downstream |= children
RECURSIVE DownstreamTraversal(_, _, _, _)
DownstreamTraversal(g, current, downstream, k) ==
    IF k <= 0 THEN downstream
    ELSE LET children == UNION {Successors(g, n) : n \in current}
         IN DownstreamTraversal(g, children, downstream \cup children, k - 1)

\* a traversal that only checks the focus against None
dependency_subgraph_unchecked(g, f, d) ==
    IF f = None
    THEN [upstream |-> {}, downstream |-> {}, subgraph |-> g]
    ELSE LET upstream == UpstreamTraversal(g, {f}, {}, d)
             downstream == DownstreamTraversal(g, {f}, {}, d)
             relevant_nodes == upstream \cup downstream \cup {f}
         IN [upstream |-> upstream,
             downstream |-> downstream,
             subgraph |-> InducedSubgraph(g, relevant_nodes)]

compute_dependency_subgraph(g, f, d) ==
    IF f = None \/ ~InGraph(g, f)
    THEN [upstream |-> {}, downstream |-> {}, subgraph |-> g]
    ELSE LET upstream == UpstreamTraversal(g, {f}, {}, d)
             downstream == DownstreamTraversal(g, {f}, {}, d)
             relevant_nodes == upstream \cup downstream \cup {f}
         IN [upstream |-> upstream,
             downstream |-> downstream,
             subgraph |-> InducedSubgraph(g, relevant_nodes)]

----------------------------------------------------------------------------
(* classify_nodes *)

NoRoles == [n \in {} |-> None]

\* for n in S: roles[n] = role
Assign(r, S, role) == [n \in DOMAIN r \cup S |-> IF n \in S THEN role ELSE r[n]]

\* a classifier that assigns downstream first, upstream second
classify_upstream_last(f, upstream, downstream) ==
    LET r1 == Assign(NoRoles, downstream, "downstream")
        r2 == Assign(r1, upstream, "upstream")
    IN IF f # None THEN Assign(r2, {f}, "focus") ELSE r2

classify_nodes(f, upstream, downstream) ==
    LET r1 == Assign(NoRoles, upstream, "upstream")
        r2 == Assign(r1, downstream, "downstream")
    IN IF f # None THEN Assign(r2, {f}, "focus") ELSE r2

----------------------------------------------------------------------------
(* compute_impact_metrics *)

ZeroMetrics ==
    [upstream_count |-> 0, downstream_count |-> 0,
     regions_affected |-> 0, downstream_weight |-> 0]

RECURSIVE ImpactUpstream(_, _, _, _)
ImpactUpstream(g, current, upstream, k) ==
    IF k <= 0 THEN upstream
    ELSE LET parents == UNION {Predecessors(g, n) : n \in current}
         IN ImpactUpstream(g, parents, upstream \cup parents, k - 1)

RECURSIVE ImpactDownstream(_, _, _, _)
ImpactDownstream(g, current, downstream, k) ==
    IF k <= 0 THEN downstream
    ELSE LET children == UNION {Successors(g, n) : n \in current}
         IN ImpactDownstream(g, children, downstream \cup children, k - 1)

\* nodes_df[nodes_df["id"].isin(downstream)]["region"].nunique()
RegionsAffected(nodes_df, downstream) ==
    Cardinality({nodes_df[i].region :
                   i \in {j \in 1..Len(nodes_df) : nodes_df[j].id \in downstream}})

\* data.get("weight", 0)
GetWeight(a) == IF "weight" \in DOMAIN a THEN a.weight ELSE 0

\* a sum over the arcs that leave the focus only
RECURSIVE WeightLeavingFocus(_, _, _, _)
WeightLeavingFocus(g, f, downstream, i) ==
    IF i > Len(g.arcs) THEN 0
    ELSE LET a == g.arcs[i]
         IN (IF a.u = f /\ a.v \in downstream THEN GetWeight(a) ELSE 0)
            + WeightLeavingFocus(g, f, downstream, i + 1)

\* the loop over graph.edges(data=True), from arc i on
RECURSIVE DownstreamWeight(_, _, _, _)
DownstreamWeight(g, f, downstream, i) ==
    IF i > Len(g.arcs) THEN 0
    ELSE LET a == g.arcs[i]
         IN (IF (a.u \in downstream \/ a.u = f) /\ a.v \in downstream
             THEN GetWeight(a) ELSE 0)
            + DownstreamWeight(g, f, downstream, i + 1)

compute_impact_metrics(g, nodes_df, f, d) ==
    IF f = None \/ ~InGraph(g, f)
    THEN ZeroMetrics
    ELSE LET upstream == ImpactUpstream(g, {f}, {}, d)
             downstream == ImpactDownstream(g, {f}, {}, d)
         IN [upstream_count |-> Cardinality(upstream),
             downstream_count |-> Cardinality(downstream),
             regions_affected |-> RegionsAffected(nodes_df, downstream),
             downstream_weight |-> DownstreamWeight(g, f, downstream, 1)]

----------------------------------------------------------------------------
(* build_edges, generate_edge_list, build_graph *)

\* nodes["id"].tolist()
NodeIds(nodes_df) == [i \in 1..Len(nodes_df) |-> nodes_df[i].id]

\* the inner loop of build_edges over node_ids, from position j on
RECURSIVE RowEdges(_, _, _)
RowEdges(row, node_ids, j) ==
    IF j > Len(node_ids) THEN <<>>
    ELSE LET tgt == node_ids[j]
             w == row.cells[tgt]
         IN (IF w > 0
             THEN <<[from |-> row.FROM_TO, to |-> tgt, weight |-> w]>>
             ELSE <<>>)
            \o RowEdges(row, node_ids, j + 1)

\* the outer loop of build_edges over matrix.iterrows(), from row i on
RECURSIVE MatrixEdges(_, _, _)
MatrixEdges(rows, node_ids, i) ==
    IF i > Len(rows) THEN <<>>
    ELSE RowEdges(rows[i], node_ids, 1) \o MatrixEdges(rows, node_ids, i + 1)

build_edges(nodes_df, m) == MatrixEdges(m.rows, NodeIds(nodes_df), 1)

\* edges["type"] = "material"; edges["notes"] = ""; edges["active"] = True
Scaffold(e) ==
    [from |-> e.from, to |-> e.to, weight |-> e.weight,
     type |-> "material", notes |-> "", active |-> TRUE]

generate_edge_list(nodes_df, m) ==
    LET e == build_edges(nodes_df, m)
    IN [i \in 1..Len(e) |-> Scaffold(e[i])]

\* row.get(key, default)
RowGet(row, key, default) == IF key \in DOMAIN row THEN row[key] ELSE default

\* G.add_node(row["id"], **row.to_dict())
AddNode(g, row) == [g EXCEPT !.nodes = @ \cup {row.id}]

\* G.add_edge(u, v, weight=..., type=..., active=...): networkx adds an
\* endpoint that is not yet a node of the graph
AddEdge(g, row) ==
    [nodes |-> g.nodes \cup {row.from, row.to},
     arcs |-> Append(g.arcs,
                     [u |-> row.from, v |-> row.to,
                      weight |-> row.weight,
                      type |-> RowGet(row, "type", None),
                      active |-> RowGet(row, "active", TRUE)])]

RECURSIVE AddNodes(_, _, _)
AddNodes(g, nodes_df, i) ==
    IF i > Len(nodes_df) THEN g ELSE AddNodes(AddNode(g, nodes_df[i]), nodes_df, i + 1)

RECURSIVE AddEdges(_, _, _)
AddEdges(g, e, i) ==
    IF i > Len(e) THEN g ELSE AddEdges(AddEdge(g, e[i]), e, i + 1)

build_graph(nodes_df, e) == AddEdges(AddNodes(EmptyGraph, nodes_df, 1), e, 1)

----------------------------------------------------------------------------
(* Inputs *)

Ids == {"A", "B", "C", "D"}
IdSeq == <<"A", "B", "C", "D">>
Pos(x) == CHOOSE i \in 1..Len(IdSeq) : IdSeq[i] = x

RegionOf == [x \in Ids |-> IF x \in {"A", "B"} THEN "north" ELSE "south"]
NodeRow(x) == [id |-> x, region |-> RegionOf[x]]
NodeTable(ids) == [i \in 1..Len(ids) |-> NodeRow(ids[i])]

\* focus_node: an id of the graph, an id that is no node, or None
FocusValues == Ids \cup {"Z", None}
Depths == -1..MaxDepth

\* arcs between the given ids with a weight of ws and, if bare, arcs without
\* a weight attribute
ArcKinds(ids, ws, bare) ==
    [u : ids, v : ids, weight : ws] \cup (IF bare THEN [u : ids, v : ids] ELSE {})

\* one representative order of every multiset of arcs (no function of
\* data_utils.py depends on the order of graph.edges)
WeightCode(a) == IF "weight" \in DOMAIN a THEN a.weight ELSE 0
Rank(a) == (Pos(a.u) * Len(IdSeq) + Pos(a.v)) * 3 + WeightCode(a)

RECURSIVE ArcLists(_, _)
ArcLists(kinds, n) ==
    IF n = 0 THEN {<<>>}
    ELSE LET shorter == ArcLists(kinds, n - 1)
             longest == {s \in shorter : Len(s) = n - 1}
         IN shorter \cup
            {Append(x[1], x[2]) :
               x \in {y \in longest \X kinds :
                        Len(y[1]) = 0 \/ Rank(y[1][Len(y[1])]) <= Rank(y[2])}}

Graphs(kinds) == {[nodes |-> Ids, arcs |-> s] : s \in ArcLists(kinds, MaxArcs)}

\* the MATRIX sheet: a FROM/TO column and one column per name in Columns
Columns == {"B", "C", "D"}
Sources == {"A", "B"}
CellValues == {-1, 0, 5}
MatrixRows == [FROM_TO : Sources, cells : [Columns -> CellValues]]

RECURSIVE RowLists(_)
RowLists(n) ==
    IF n = 0 THEN {<<>>}
    ELSE LET shorter == RowLists(n - 1)
         IN shorter \cup
            {Append(x[1], x[2]) : x \in {s \in shorter : Len(s) = n - 1} \X MatrixRows}

Matrices == {[columns |-> Columns, rows |-> r] : r \in RowLists(MaxRows)}

\* the NODES sheet: every id has a column of the matrix
NodeTables == {NodeTable(<<"B", "C", "D">>), NodeTable(<<"C", "B">>)}

NoMatrix == [columns |-> {}, rows |-> <<>>]
NoCall == [focus |-> None, upstream |-> {}, downstream |-> {}]

----------------------------------------------------------------------------
(* Edge and graph construction: app.py, pages/01_Diagnostics.py *)

InitBuild ==
    /\ nodes \in NodeTables
    /\ matrix \in Matrices
    /\ edges = <<>>
    /\ G = EmptyGraph
    /\ focus_node = None /\ max_depth = 0
    /\ dep = None /\ impact = None
    /\ cls = NoCall /\ roles = NoRoles
    /\ pc = "loaded"

BuildEdges ==
    /\ pc = "loaded"
    /\ edges' = build_edges(nodes, matrix)
    /\ pc' = "edges"
    /\ UNCHANGED <<nodes, matrix, G, focus_node, max_depth, dep, impact, cls, roles>>

GenerateEdgeList ==
    /\ pc = "loaded"
    /\ edges' = generate_edge_list(nodes, matrix)
    /\ pc' = "edges"
    /\ UNCHANGED <<nodes, matrix, G, focus_node, max_depth, dep, impact, cls, roles>>

BuildGraph ==
    /\ pc = "edges"
    /\ G' = build_graph(nodes, edges)
    /\ pc' = "graph"
    /\ UNCHANGED <<nodes, matrix, edges, focus_node, max_depth, dep, impact, cls, roles>>

NextBuild == BuildEdges \/ GenerateEdgeList \/ BuildGraph

SpecBuild == InitBuild /\ [][NextBuild]_vars

----------------------------------------------------------------------------
(* Dependency analysis of a given graph: app.py *)

InitGraph(graphs) ==
    /\ nodes = NodeTable(IdSeq)
    /\ matrix = NoMatrix
    /\ edges = <<>>
    /\ G \in graphs
    /\ focus_node = None /\ max_depth = 0
    /\ dep = None /\ impact = None
    /\ cls = NoCall /\ roles = NoRoles
    /\ pc = "graph"

ComputeDependencySubgraph ==
    /\ pc = "graph"
    /\ \E f \in FocusValues, d \in Depths :
          /\ focus_node' = f
          /\ max_depth' = d
          /\ dep' = compute_dependency_subgraph(G, f, d)
    /\ pc' = "traversed"
    /\ UNCHANGED <<nodes, matrix, edges, G, impact, cls, roles>>

ComputeImpactMetrics ==
    /\ pc = "traversed"
    /\ impact' = compute_impact_metrics(G, nodes, focus_node, max_depth)
    /\ pc' = "measured"
    /\ UNCHANGED <<nodes, matrix, edges, G, focus_node, max_depth, dep, cls, roles>>

NextAnalysis == ComputeDependencySubgraph \/ ComputeImpactMetrics

\* every multigraph on four nodes, all arcs of weight 1
InitAnalysis == InitGraph(Graphs(ArcKinds(Ids, {1}, FALSE)))
SpecAnalysis == InitAnalysis /\ [][NextAnalysis]_vars

\* every multigraph with arcs between A, B and C (D isolated), an arc having
\* weight 1 or 2 or no weight attribute
InitWeighted == InitGraph(Graphs(ArcKinds({"A", "B", "C"}, {1, 2}, TRUE)))
SpecWeighted == InitWeighted /\ [][NextAnalysis]_vars

----------------------------------------------------------------------------
(* Role classification *)

InitClassify ==
    /\ nodes = NodeTable(IdSeq)
    /\ matrix = NoMatrix
    /\ edges = <<>>
    /\ G = EmptyGraph
    /\ focus_node = None /\ max_depth = 0
    /\ dep = None /\ impact = None
    /\ cls \in [focus : FocusValues, upstream : SUBSET Ids, downstream : SUBSET Ids]
    /\ roles = NoRoles
    /\ pc = "classify"

ClassifyNodes ==
    /\ pc = "classify"
    /\ roles' = classify_nodes(cls.focus, cls.upstream, cls.downstream)
    /\ pc' = "classified"
    /\ UNCHANGED <<nodes, matrix, edges, G, focus_node, max_depth, dep, impact, cls>>

NextClassify == ClassifyNodes

SpecClassify == InitClassify /\ [][NextClassify]_vars

----------------------------------------------------------------------------
(* Reference definitions used by the properties: directed walks *)

HasArc(g, x, y) == \E i \in 1..Len(g.arcs) : g.arcs[i].u = x /\ g.arcs[i].v = y

\* a directed walk of exactly k >= 1 arcs from x to y
HasWalk(g, x, y, k) ==
    \E mid \in [1..(k - 1) -> g.nodes] :
        LET w == <<x>> \o mid \o <<y>>
        IN \A i \in 1..k : HasArc(g, w[i], w[i + 1])

WalksInto(g, f, d) == {n \in g.nodes : \E k \in 1..d : HasWalk(g, n, f, k)}
WalksFrom(g, f, d) == {n \in g.nodes : \E k \in 1..d : HasWalk(g, f, n, k)}

ArcPairs(g) == {<<g.arcs[i].u, g.arcs[i].v>> : i \in 1..Len(g.arcs)}
IsChainABCD(g) ==
    Len(g.arcs) = 3 /\ ArcPairs(g) = {<<"A", "B">>, <<"B", "C">>, <<"C", "D">>}

FocusPresent == focus_node # None /\ focus_node \in G.nodes

----------------------------------------------------------------------------
(* C1: for a focus present in the graph, upstream_set is exactly the set   *)
(* of nodes with a directed walk of 1..max_depth arcs to the focus and     *)
(* downstream_set exactly the set of nodes reached from the focus by such  *)
(* a walk; both are empty when max_depth <= 0; on the chain A->B->C->D     *)
(* with focus B the result is ({A},{C}) at depth 1, ({A},{C,D}) at depth 2 *)
C1_BoundedWalkSets ==
    (pc = "traversed" /\ FocusPresent) =>
        /\ dep.upstream = WalksInto(G, focus_node, max_depth)
        /\ dep.downstream = WalksFrom(G, focus_node, max_depth)
        /\ (max_depth <= 0 => dep.upstream = {} /\ dep.downstream = {})
        /\ (IsChainABCD(G) /\ focus_node = "B" /\ max_depth = 1
              => dep.upstream = {"A"} /\ dep.downstream = {"C"})
        /\ (IsChainABCD(G) /\ focus_node = "B" /\ max_depth = 2
              => dep.upstream = {"A"} /\ dep.downstream = {"C", "D"})

\* the chain scenario at depth 2
C1_Witness ==
    /\ pc = "traversed" /\ IsChainABCD(G)
    /\ focus_node = "B" /\ max_depth = 2
    /\ dep.upstream = {"A"} /\ dep.downstream = {"C", "D"}

(* C2: the focus is in neither upstream_set nor downstream_set *)
C2_FocusExcluded ==
    (pc = "traversed" /\ FocusPresent) =>
        focus_node \notin dep.upstream /\ focus_node \notin dep.downstream

(* C4: the returned subgraph has node set {focus} u upstream_set u         *)
(* downstream_set and holds every arc of G between two of these nodes,     *)
(* with its multiplicity, and no other arc                                 *)
C4_InducedSubgraph ==
    (pc = "traversed" /\ FocusPresent) =>
        LET S == {focus_node} \cup dep.upstream \cup dep.downstream
            sub == dep.subgraph
        IN /\ sub.nodes = S
           /\ \A a \in Range(G.arcs) \cup Range(sub.arcs) :
                 Count(sub.arcs, a) =
                   IF a.u \in S /\ a.v \in S THEN Count(G.arcs, a) ELSE 0

\* parallel arcs that the depth-1 traversal never follows are in the subgraph
C4_Witness ==
    /\ pc = "traversed" /\ FocusPresent /\ max_depth = 1
    /\ \E i, j \in 1..Len(dep.subgraph.arcs) :
          /\ i < j
          /\ dep.subgraph.arcs[i] = dep.subgraph.arcs[j]
          /\ dep.subgraph.arcs[i].u # focus_node
          /\ dep.subgraph.arcs[i].v # focus_node
    /\ dep.subgraph.nodes # G.nodes

(* C9: with the focus None or not a node of the graph, the traversal       *)
(* returns two empty sets and the input graph itself, and the metrics are  *)
(* all 0, for every max_depth                                              *)
C9_MissingFocusFallback ==
    (pc \in {"traversed", "measured"} /\ ~FocusPresent) =>
        /\ dep.upstream = {} /\ dep.downstream = {} /\ dep.subgraph = G
        /\ pc = "measured" =>
              /\ impact.upstream_count = 0
              /\ impact.downstream_count = 0
              /\ impact.regions_affected = 0
              /\ impact.downstream_weight = 0

\* an unknown focus on a graph with arcs, at a positive depth
C9_Witness ==
    /\ pc = "measured" /\ focus_node = "Z" /\ max_depth > 0
    /\ Len(G.arcs) = MaxArcs /\ dep.subgraph = G
    /\ impact = ZeroMetrics

\* the sum over the distinct arcs of S of multiplicity in g times weight
RECURSIVE ArcSetWeight(_, _)
ArcSetWeight(S, g) ==
    IF S = {} THEN 0
    ELSE LET a == CHOOSE x \in S : TRUE
         IN Count(g.arcs, a) * (IF "weight" \in DOMAIN a THEN a.weight ELSE 0)
            + ArcSetWeight(S \ {a}, g)

\* the arcs from the focus or a downstream node to a downstream node
ImpactZone(g, f, d) ==
    LET D == WalksFrom(g, f, d)
    IN {a \in Range(g.arcs) : (a.u = f \/ a.u \in D) /\ a.v \in D}

(* C8: for a focus present in the graph, downstream_weight is the sum of  *)
(* the weights of all arcs (u, v) of the full graph with u the focus or a  *)
(* downstream node and v a downstream node, each parallel arc counted, an  *)
(* arc without a weight attribute counting 0                               *)
C8_DownstreamWeight ==
    (pc = "measured" /\ FocusPresent) =>
        impact.downstream_weight = ArcSetWeight(ImpactZone(G, focus_node, max_depth), G)

\* the zone holds two parallel arcs of weights 1 and 2 and an arc without
\* weight that does not leave the focus
C8_Witness ==
    /\ pc = "measured" /\ FocusPresent
    /\ LET zone == ImpactZone(G, focus_node, max_depth)
       IN /\ \E a \in zone : "weight" \notin DOMAIN a /\ a.u # focus_node
          /\ \E a, b \in zone :
                /\ a.u = b.u /\ a.v = b.v
                /\ "weight" \in DOMAIN a /\ "weight" \in DOMAIN b
                /\ a.weight # b.weight
    /\ impact.downstream_weight = 3

(* C7: for a focus id, the role map has key set upstream_set u             *)
(* downstream_set u {focus}; the focus maps to "focus", every other member *)
(* of downstream_set to "downstream", every remaining member of            *)
(* upstream_set to "upstream"                                              *)
C7_RoleMap ==
    (pc = "classified" /\ cls.focus # None) =>
        /\ DOMAIN roles = cls.upstream \cup cls.downstream \cup {cls.focus}
        /\ roles[cls.focus] = "focus"
        /\ \A n \in cls.downstream \ {cls.focus} : roles[n] = "downstream"
        /\ \A n \in (cls.upstream \ cls.downstream) \ {cls.focus} :
              roles[n] = "upstream"

\* the sets of the cycle A->B->A with focus A at depth 1
C7_Witness ==
    /\ pc = "classified"
    /\ cls = [focus |-> "A", upstream |-> {"B"}, downstream |-> {"B"}]
    /\ roles = [n \in {"A", "B"} |-> IF n = "A" THEN "focus" ELSE "downstream"]

----------------------------------------------------------------------------
(* Edge and graph construction *)

TableIds == Range(NodeIds(nodes))

\* the number of edge rows from src to tgt with weight w
EdgeCount(src, tgt, w) ==
    Cardinality({i \in 1..Len(edges) :
                   edges[i].from = src /\ edges[i].to = tgt /\ edges[i].weight = w})

\* the number of matrix rows of source src whose cell in column tgt is w
CellCount(src, tgt, w) ==
    Cardinality({i \in 1..Len(matrix.rows) :
                   matrix.rows[i].FROM_TO = src /\ matrix.rows[i].cells[tgt] = w})

(* C3: after build_graph the node set of the graph is exactly the set of   *)
(* ids of the node table, and no arc has an endpoint outside the table     *)
C3_NoPhantomNodes ==
    pc = "graph" =>
        /\ G.nodes = TableIds
        /\ \A i \in 1..Len(G.arcs) : G.arcs[i].u \in TableIds /\ G.arcs[i].v \in TableIds

(* C5: when every node id has a column, build_edges emits exactly one edge *)
(* (row's FROM/TO, column, cell value) for each strictly positive cell of  *)
(* the matrix and none for a zero or negative cell, so every weight is > 0 *)
C5_OneEdgePerPositiveCell ==
    (pc = "edges" /\ TableIds \subseteq matrix.columns) =>
        /\ \A i \in 1..Len(edges) : edges[i].weight > 0
        /\ \A src \in Sources, tgt \in matrix.columns, w \in CellValues :
              EdgeCount(src, tgt, w) = IF w > 0 THEN CellCount(src, tgt, w) ELSE 0

\* the part of C5 that the code keeps: the same, for the cells in the
\* columns named by a node id
C5_NodeColumnsOnly ==
    (pc = "edges" /\ TableIds \subseteq matrix.columns) =>
        /\ \A i \in 1..Len(edges) : edges[i].weight > 0 /\ edges[i].to \in TableIds
        /\ \A src \in Sources, tgt \in TableIds, w \in CellValues :
              EdgeCount(src, tgt, w) = IF w > 0 THEN CellCount(src, tgt, w) ELSE 0

(* C6: a strictly positive cell in a column whose name is no node id       *)
(* yields an edge to that column name                                      *)
C6_UnknownColumnHonored ==
    pc = "edges" =>
        \A i \in 1..Len(matrix.rows), c \in matrix.columns \ TableIds :
            matrix.rows[i].cells[c] > 0 =>
                EdgeCount(matrix.rows[i].FROM_TO, c, matrix.rows[i].cells[c]) > 0

(* C10: build_graph adds one arc per edge row, and the arc of a row        *)
(* without a type or active field has type "material" and active true      *)
C10_ArcDefaults ==
    pc = "graph" =>
        /\ Len(G.arcs) = Len(edges)
        /\ \A i \in 1..Len(edges) :
              /\ G.arcs[i].u = edges[i].from /\ G.arcs[i].v = edges[i].to
              /\ G.arcs[i].weight = edges[i].weight
              /\ "type" \notin DOMAIN edges[i] => G.arcs[i].type = "material"
              /\ "active" \notin DOMAIN edges[i] => G.arcs[i].active = TRUE

\* the part of C10 that the code keeps: one arc per row, active true
C10_OneArcPerRow ==
    pc = "graph" =>
        /\ Len(G.arcs) = Len(edges)
        /\ \A i \in 1..Len(edges) :
              /\ G.arcs[i].u = edges[i].from /\ G.arcs[i].v = edges[i].to
              /\ G.arcs[i].weight = edges[i].weight
              /\ "active" \notin DOMAIN edges[i] => G.arcs[i].active = TRUE

====
